---- MODULE Spec2Model ----
(***************************************************************************)
(* Model of fslash/collections/list.py: the immutable singly linked List   *)
(* (Cons cells and the Nil singleton), its methods, the curried free       *)
(* functions and slice.                                                    *)
(*                                                                         *)
(* Objects live in a heap: heap[i] is the i-th Cons object ever built, a   *)
(* record of its _value (head, tail) and its cached _len.  A list value is *)
(* a reference: Nil (0) or an index into the heap.  Every method is an     *)
(* operator from a heap to a result record [h, kind, v]: the heap after    *)
(* the call, the kind of outcome ("list", "value", "bool", "Some",         *)
(* "Nothing", "closure", "seq" for a lazy sequence of elements, "pairs"    *)
(* for a lazy sequence of tuples, or the name of the exception raised)     *)
(* and its payload.                                                        *)
(***************************************************************************)
EXTENDS Integers, Sequences, FiniteSets, TLC

VARIABLES heap, last

vars == <<heap, last>>

\* ---------------------------------------------------------------- bounds
MaxCells == 3
MaxElem == 2
MaxCount == 2
MaxSeqLen == 2

Elem == 1..MaxElem
Counts == 0..MaxCount

\* sys.maxsize, the default stop of slice (its value on a 32 bit build).
maxsize == 2147483647

\* ---------------------------------------------------------------- values
Nil == 0

Refs(h) == 0..Len(h)

Ok(h, kind, v) == [h |-> h, kind |-> kind, v |-> v]

Raise(h, exc) == [h |-> h, kind |-> exc, v |-> 0]

IsError(res) == res.kind \in {"ValueError", "IndexError", "TypeError"}

Nothing == [tag |-> "Nothing", value |-> 0]

Some(x) == [tag |-> "Some", value |-> x]

\* ---------------------------------------------------------------- length
Nil_len == 0

Cons_len(h, self) == h[self].len

len(h, self) == IF self = Nil THEN Nil_len ELSE Cons_len(h, self)

\* ---------------------------------------------------------------- Cons()
Cons_init_nolen(h, hd, tl) ==
    Ok(Append(h, [head |-> hd, tail |-> tl, len |-> 1]), "list", Len(h) + 1)

Cons(h, hd, tl) ==
    Ok(Append(h, [head |-> hd, tail |-> tl, len |-> 1 + len(h, tl)]),
       "list", Len(h) + 1)

\* Cons(hd, <res>) where <res> is the outcome of evaluating the tail
\* argument: an exception raised there propagates and no cell is built.
ConsOn(res, hd) == IF IsError(res) THEN res ELSE Cons(res.h, hd, res.v)

\* ---------------------------------------------------------------- iteration
RECURSIVE iter(_, _)
iter(h, self) ==
    IF self = Nil THEN <<>> ELSE <<h[self].head>> \o iter(h, h[self].tail)

\* ---------------------------------------------------------------- __eq__
RECURSIVE eq(_, _, _)
Nil_eq(h, other) == other = Nil

Cons_eq(h, self, other) ==
    IF other = Nil THEN FALSE
    ELSE h[self].head = h[other].head /\ eq(h, h[self].tail, h[other].tail)

eq(h, self, other) ==
    IF self = Nil THEN Nil_eq(h, other) ELSE Cons_eq(h, self, other)

\* ---------------------------------------------------------------- cons, head, tail
Nil_cons(h, element) == Cons(h, element, Nil)

Cons_cons(h, self, element) == Cons(h, element, self)

List_cons(h, self, element) ==
    IF self = Nil THEN Nil_cons(h, element) ELSE Cons_cons(h, self, element)

Nil_head(h) == Raise(h, "IndexError")

Cons_head(h, self) == Ok(h, "value", h[self].head)

List_head(h, self) == IF self = Nil THEN Nil_head(h) ELSE Cons_head(h, self)

Nil_tail(h) == Raise(h, "IndexError")

Cons_tail(h, self) == Ok(h, "list", h[self].tail)

List_tail(h, self) == IF self = Nil THEN Nil_tail(h) ELSE Cons_tail(h, self)

Nil_try_head(h) == Ok(h, "Nothing", 0)

Cons_try_head(h, self) == Ok(h, "Some", h[self].head)

List_try_head(h, self) ==
    IF self = Nil THEN Nil_try_head(h) ELSE Cons_try_head(h, self)

Nil_is_empty(h) == Ok(h, "bool", TRUE)

Cons_is_empty(h, self) == Ok(h, "bool", FALSE)

List_is_empty(h, self) ==
    IF self = Nil THEN Nil_is_empty(h) ELSE Cons_is_empty(h, self)

\* ---------------------------------------------------------------- append
RECURSIVE List_append(_, _, _)
Nil_append(h, other) == Ok(h, "list", other)

Cons_append_drop(h, self, other) == List_append(h, h[self].tail, other)

\* a destructive append: the last cell of self is pointed at other
RECURSIVE last_cell(_, _)
last_cell(h, self) ==
    IF h[self].tail = Nil THEN self ELSE last_cell(h, h[self].tail)

Cons_append_inplace(h, self, other) ==
    Ok([h EXCEPT ![last_cell(h, self)].tail = other], "list", self)

Cons_append(h, self, other) ==
    ConsOn(List_append(h, h[self].tail, other), h[self].head)

List_append(h, self, other) ==
    IF self = Nil THEN Nil_append(h, other) ELSE Cons_append(h, self, other)

Nil_add(h, other) == Ok(h, "list", other)

Cons_add(h, self, other) == List_append(h, self, other)

List_add(h, self, other) ==
    IF self = Nil THEN Nil_add(h, other) ELSE Cons_add(h, self, other)

\* ---------------------------------------------------------------- skip, take
RECURSIVE List_skip(_, _, _)
Nil_skip(h, count) ==
    IF count = 0 THEN Ok(h, "list", Nil) ELSE Raise(h, "ValueError")

Cons_skip(h, self, count) ==
    IF count = 0 THEN Ok(h, "list", self)
    ELSE List_skip(h, h[self].tail, count - 1)

List_skip(h, self, count) ==
    IF self = Nil THEN Nil_skip(h, count) ELSE Cons_skip(h, self, count)

RECURSIVE List_take(_, _, _)
Nil_take_lenient(h, count) == Ok(h, "list", Nil)

Nil_take(h, count) ==
    IF count = 0 THEN Ok(h, "list", Nil) ELSE Raise(h, "ValueError")

Cons_take_offbyone(h, self, count) ==
    IF count = 0 THEN Ok(h, "list", Nil)
    ELSE ConsOn(List_take(h, h[self].tail, count), h[self].head)

Cons_take(h, self, count) ==
    IF count = 0 THEN Ok(h, "list", Nil)
    ELSE ConsOn(List_take(h, h[self].tail, count - 1), h[self].head)

List_take(h, self, count) ==
    IF self = Nil THEN Nil_take(h, count) ELSE Cons_take(h, self, count)

\* ---------------------------------------------------------------- skip_last, take_last
RECURSIVE List_skip_last(_, _, _)
Nil_skip_last(h, count) ==
    IF count = 0 THEN Ok(h, "list", Nil) ELSE Raise(h, "ValueError")

Cons_skip_last_noguard(h, self, count) ==
    IF count = 0 THEN Ok(h, "list", self)
    ELSE LET tl == h[self].tail
             queue == List_skip_last(h, tl, count)
         IN  IF IsError(queue) THEN queue
             ELSE IF len(h, tl) >= count THEN Cons(queue.h, h[self].head, queue.v)
             ELSE queue

Cons_skip_last(h, self, count) ==
    IF count = 0 THEN Ok(h, "list", self)
    ELSE LET tl == h[self].tail
             queue == IF tl = Nil THEN Ok(h, "list", tl)
                      ELSE List_skip_last(h, tl, count)
         IN  IF IsError(queue) THEN queue
             ELSE IF len(h, tl) >= count THEN Cons(queue.h, h[self].head, queue.v)
             ELSE queue

List_skip_last(h, self, count) ==
    IF self = Nil THEN Nil_skip_last(h, count)
    ELSE Cons_skip_last(h, self, count)

RECURSIVE List_take_last(_, _, _)
Nil_take_last(h, count) ==
    IF count = 0 THEN Ok(h, "list", Nil) ELSE Raise(h, "ValueError")

Cons_take_last_le(h, self, count) ==
    IF count = 0 THEN Ok(h, "list", Nil)
    ELSE LET tl == h[self].tail
             queue == IF tl = Nil THEN Ok(h, "list", tl)
                      ELSE List_take_last(h, tl, count)
         IN  IF IsError(queue) THEN queue
             ELSE IF len(queue.h, queue.v) <= count
                  THEN Cons(queue.h, h[self].head, queue.v)
             ELSE queue

Cons_take_last(h, self, count) ==
    IF count = 0 THEN Ok(h, "list", Nil)
    ELSE LET tl == h[self].tail
             queue == IF tl = Nil THEN Ok(h, "list", tl)
                      ELSE List_take_last(h, tl, count)
         IN  IF IsError(queue) THEN queue
             ELSE IF len(queue.h, queue.v) < count
                  THEN Cons(queue.h, h[self].head, queue.v)
             ELSE queue

List_take_last(h, self, count) ==
    IF self = Nil THEN Nil_take_last(h, count)
    ELSE Cons_take_last(h, self, count)

\* ---------------------------------------------------------------- singleton, of_option
singleton(h, value) == Cons(h, value, Nil)

empty == Nil

of_option(h, option) ==
    IF option.tag = "Some" THEN singleton(h, option.value)
    ELSE Ok(h, "list", empty)

\* ---------------------------------------------------------------- map, filter
RECURSIVE List_map(_, _, _)
Nil_map(h, mapping) == Ok(h, "list", Nil)

Cons_map(h, self, mapper) ==
    ConsOn(List_map(h, h[self].tail, mapper), mapper[h[self].head])

List_map(h, self, mapper) ==
    IF self = Nil THEN Nil_map(h, mapper) ELSE Cons_map(h, self, mapper)

RECURSIVE List_filter(_, _, _)
Nil_filter(h, predicate) == Ok(h, "list", Nil)

Cons_filter(h, self, predicate) ==
    LET filtered == List_filter(h, h[self].tail, predicate)
    IN  IF predicate[h[self].head] THEN ConsOn(filtered, h[self].head)
        ELSE filtered

List_filter(h, self, predicate) ==
    IF self = Nil THEN Nil_filter(h, predicate)
    ELSE Cons_filter(h, self, predicate)

\* ---------------------------------------------------------------- choose, collect
RECURSIVE List_choose(_, _, _)
Nil_choose(h, chooser) == Ok(h, "list", Nil)

Cons_choose(h, self, chooser) ==
    LET filtered == List_choose(h, h[self].tail, chooser)
        opt == of_option(filtered.h, chooser[h[self].head])
    IN  IF IsError(filtered) THEN filtered
        ELSE List_append(opt.h, opt.v, filtered.v)

List_choose(h, self, chooser) ==
    IF self = Nil THEN Nil_choose(h, chooser)
    ELSE Cons_choose(h, self, chooser)

RECURSIVE List_collect(_, _, _)
Nil_collect(h, mapping) == Ok(h, "list", Nil)

Cons_collect(h, self, mapping) ==
    LET rest == List_collect(h, h[self].tail, mapping)
    IN  IF IsError(rest) THEN rest
        ELSE List_append(rest.h, mapping[h[self].head], rest.v)

List_collect(h, self, mapping) ==
    IF self = Nil THEN Nil_collect(h, mapping)
    ELSE Cons_collect(h, self, mapping)

\* ---------------------------------------------------------------- the lazy sequence collaborator
\* The first n items of init_infinite(identity): 0, 1, 2, ...
init_infinite(n) == [i \in 1..n |-> i - 1]

\* zip(source1)(source2): pairs, as long as the shorter of the two.
zip(source1, source2) ==
    [i \in 1..(IF Len(source1) < Len(source2) THEN Len(source1)
               ELSE Len(source2)) |-> <<source1[i], source2[i]>>]

\* slice's lambda t: t[0] % _step == 0, on a pair (position, element)
lambda_t(step_, t) == t[1] % step_ = 0

\* filter(predicate)(source) on a lazy sequence; the predicate is the
\* closure of lambda_t over its step.
Seq_filter(predicate, source) ==
    SelectSeq(source, LAMBDA t : lambda_t(predicate.arg, t))

\* ---------------------------------------------------------------- of_seq, concat
of_seq_folder(value, acc) == Cons(acc.h, value, acc.v)

concat_folder(xs, acc) == List_add(acc.h, xs, acc.v)

\* Calling one of the two folder functions by name.
call_folder(folder, x, acc) ==
    CASE folder = "of_seq.folder" -> of_seq_folder(x, acc)
      [] folder = "concat.folder" -> concat_folder(x, acc)

\* fold_back(folder, xs)(init): folds from the last element of xs back to
\* the first; the accumulator is a result record carrying the heap.
fold_back(folder, xs, init) ==
    LET acc[i \in 0..Len(xs)] ==
            IF i = 0 THEN init
            ELSE IF IsError(acc[i - 1]) THEN acc[i - 1]
            ELSE call_folder(folder, xs[Len(xs) - i + 1], acc[i - 1])
    IN  acc[Len(xs)]

of_seq(h, xs) == fold_back("of_seq.folder", xs, Ok(h, "list", Nil))

concat(h, sources) == fold_back("concat.folder", sources, Ok(h, "list", Nil))

\* ---------------------------------------------------------------- free functions
\* A free function is called with the tuple of its positional arguments;
\* a call whose argument count differs from the def's parameter list
\* raises TypeError.  The curried ones return a closure [fn, arg].
Closure(fn, arg) == [fn |-> fn, arg |-> arg]

append(h, args) ==
    IF Len(args) # 1 THEN Raise(h, "TypeError")
    ELSE Ok(h, "closure", Closure("_append", args[1]))

choose(h, args) ==
    IF Len(args) # 2 THEN Raise(h, "TypeError")
    ELSE Ok(h, "closure", Closure("_choose", args[2]))

collect(h, args) ==
    IF Len(args) # 1 THEN Raise(h, "TypeError")
    ELSE Ok(h, "closure", Closure("_collect", args[1]))

filter(h, args) ==
    IF Len(args) # 1 THEN Raise(h, "TypeError")
    ELSE Ok(h, "closure", Closure("_filter", args[1]))

head(h, args) ==
    IF Len(args) # 1 THEN Raise(h, "TypeError") ELSE List_head(h, args[1])

is_empty(h, args) ==
    IF Len(args) # 1 THEN Raise(h, "TypeError") ELSE List_is_empty(h, args[1])

map(h, args) ==
    IF Len(args) # 1 THEN Raise(h, "TypeError")
    ELSE Ok(h, "closure", Closure("_map", args[1]))

skip(h, args) ==
    IF Len(args) # 1 THEN Raise(h, "TypeError")
    ELSE Ok(h, "closure", Closure("_skip", args[1]))

skip_last(h, args) ==
    IF Len(args) # 1 THEN Raise(h, "TypeError")
    ELSE Ok(h, "closure", Closure("_skip_last", args[1]))

tail(h, args) ==
    IF Len(args) # 1 THEN Raise(h, "TypeError") ELSE List_tail(h, args[1])

take(h, args) ==
    IF Len(args) # 1 THEN Raise(h, "TypeError")
    ELSE Ok(h, "closure", Closure("_take", args[1]))

take_last(h, args) ==
    IF Len(args) # 1 THEN Raise(h, "TypeError")
    ELSE Ok(h, "closure", Closure("take_last._take", args[1]))

try_head(h, args) ==
    IF Len(args) # 1 THEN Raise(h, "TypeError")
    ELSE Ok(h, "closure", Closure("_try_head", args[1]))

\* compose(f, g): the function applying f, then g.
compose(f, g) == Closure("compose", <<f, g>>)

\* The items of an iterable value: a List iterates head to tail.
Items(val) == IF val.kind = "list" THEN iter(val.h, val.v) ELSE val.v

\* Calling a closure on the value val (a result record).
RECURSIVE Apply(_, _)
Apply(clo, val) ==
    CASE clo.fn = "_append" -> List_append(val.h, clo.arg, val.v)
      [] clo.fn = "_choose" -> List_choose(val.h, val.v, clo.arg)
      [] clo.fn = "_collect" -> List_collect(val.h, val.v, clo.arg)
      [] clo.fn = "_filter" -> List_filter(val.h, val.v, clo.arg)
      [] clo.fn = "_map" -> List_map(val.h, val.v, clo.arg)
      [] clo.fn = "_skip" -> List_skip(val.h, val.v, clo.arg)
      [] clo.fn = "_skip_last" -> List_skip_last(val.h, val.v, clo.arg)
      [] clo.fn = "_take" -> List_take(val.h, val.v, clo.arg)
      [] clo.fn = "take_last._take" -> List_take_last(val.h, val.v, clo.arg)
      [] clo.fn = "_try_head" -> List_try_head(val.h, val.v)
      [] clo.fn = "Seq.zip" ->
            Ok(val.h, "pairs", zip(init_infinite(Len(Items(val))), Items(val)))
      [] clo.fn = "Seq.filter" ->
            Ok(val.h, val.kind, Seq_filter(clo.arg, Items(val)))
      [] clo.fn = "compose" ->
            LET mid == Apply(clo.arg[1], val)
            IN  IF IsError(mid) THEN mid ELSE Apply(clo.arg[2], mid)

\* pipe(value, *fns): applies the functions left to right.
RECURSIVE pipe(_, _)
pipe(val, fns) ==
    IF fns = <<>> \/ IsError(val) THEN val
    ELSE pipe(Apply(Head(fns), val), Tail(fns))

List_pipe(h, self, fns) == pipe(Ok(h, "list", self), fns)

\* ---------------------------------------------------------------- slice
\* An Optional[int] argument.
NoneArg == [none |-> TRUE, int |-> 0]

IntArg(i) == [none |-> FALSE, int |-> i]

slice(h, self, start, stop, step) ==
    LET start_ == IF start.none THEN 0 ELSE start.int
        stop_ == IF stop.none THEN maxsize ELSE stop.int
        step_ == IF step.none THEN 1 ELSE step.int
        p1 == IF stop_ >= 0 THEN <<take(h, <<stop_>>).v>> ELSE <<>>
        p2 == IF start_ > 0 THEN <<skip(h, <<start_>>).v>>
              ELSE IF start_ < 0 THEN <<take_last(h, <<-start_>>).v>>
              ELSE <<>>
        p3 == IF stop_ < 0 THEN <<skip_last(h, <<-stop_>>).v>> ELSE <<>>
        p4 == IF step_ > 1
              THEN <<compose(Closure("Seq.zip", "init_infinite"),
                             Closure("Seq.filter", Closure("lambda t", step_)))>>
              ELSE <<>>
    IN  IF ~(step_ > 1) /\ step_ < 0 THEN Raise(h, "TypeError")
        ELSE List_pipe(h, self, p1 \o p2 \o p3 \o p4)

\* ---------------------------------------------------------------- inputs
\* mapper functions: the identity, the cyclic successor, a constant
Mappers ==
    {[x \in Elem |-> x], [x \in Elem |-> (x % MaxElem) + 1], [x \in Elem |-> 1]}

\* predicates x <= k, from the always false one to the always true one
Predicates == {[x \in Elem |-> x <= k] : k \in 0..MaxElem}

Options == {Nothing} \cup {Some(x) : x \in Elem}

\* choosers: keep the even ones, keep all, keep x > 1 replaced by 1
Choosers ==
    {[x \in Elem |-> IF x % 2 = 0 THEN Some(x) ELSE Nothing],
     [x \in Elem |-> Some(x)],
     [x \in Elem |-> IF x > 1 THEN Some(1) ELSE Nothing]}

\* collect mappings: every element to the list r, or only element 1
Mappings(h) ==
    {[x \in Elem |-> r] : r \in Refs(h)}
    \cup {[x \in Elem |-> IF x = 1 THEN r ELSE Nil] : r \in Refs(h)}

Iterables == UNION {[1..n -> Elem] : n \in 0..MaxSeqLen}

\* concat sources: no list, one, two, and two around the empty list
Sources(h) ==
    {<<>>} \cup {<<a>> : a \in Refs(h)}
    \cup {<<a, b>> : a \in Refs(h), b \in Refs(h)}
    \cup {<<a, Nil, b>> : a \in Refs(h), b \in Refs(h)}

\* slice arguments (start, stop, step): omitted, relative to the start,
\* relative to the end, stepped
SliceArgs ==
    {<<NoneArg, NoneArg, NoneArg>>,
     <<IntArg(0), NoneArg, NoneArg>>,
     <<IntArg(1), NoneArg, NoneArg>>,
     <<IntArg(-1), NoneArg, NoneArg>>,
     <<NoneArg, IntArg(1), NoneArg>>,
     <<NoneArg, IntArg(-1), NoneArg>>,
     <<IntArg(1), IntArg(2), NoneArg>>,
     <<IntArg(1), IntArg(-1), NoneArg>>,
     <<IntArg(-1), IntArg(-1), NoneArg>>,
     <<IntArg(0), IntArg(1), IntArg(2)>>,
     <<IntArg(0), IntArg(2), IntArg(2)>>,
     <<NoneArg, IntArg(-1), IntArg(2)>>,
     <<NoneArg, NoneArg, IntArg(2)>>,
     <<IntArg(0), IntArg(1), IntArg(-1)>>}

\* ---------------------------------------------------------------- the state machine
Init ==
    /\ heap = <<>>
    /\ last = [op |-> "init", args |-> <<>>, kind |-> "list", v |-> Nil]

\* A call: the heap becomes the heap the call leaves, and the call, its
\* arguments and its outcome are recorded.
Do(op, args, res) ==
    /\ Len(res.h) <= MaxCells
    /\ heap' = res.h
    /\ last' = [op |-> op, args |-> args, kind |-> res.kind, v |-> res.v]

\* Calling a curried free function, then its result on xs.
CallOn(res, xs) ==
    IF res.kind = "closure" THEN Apply(res.v, Ok(res.h, "list", xs)) ELSE res

M_cons == \E xs \in Refs(heap), x \in Elem : Do("cons", <<xs, x>>, List_cons(heap, xs, x))

M_head == \E xs \in Refs(heap) : Do("head", <<xs>>, List_head(heap, xs))

M_tail == \E xs \in Refs(heap) : Do("tail", <<xs>>, List_tail(heap, xs))

M_try_head == \E xs \in Refs(heap) : Do("try_head", <<xs>>, List_try_head(heap, xs))

M_is_empty == \E xs \in Refs(heap) : Do("is_empty", <<xs>>, List_is_empty(heap, xs))

M_len == \E xs \in Refs(heap) : Do("len", <<xs>>, Ok(heap, "value", len(heap, xs)))

M_eq == \E a \in Refs(heap), b \in Refs(heap) :
    Do("eq", <<a, b>>, Ok(heap, "bool", eq(heap, a, b)))

M_iter == \E xs \in Refs(heap) : Do("iter", <<xs>>, Ok(heap, "seq", iter(heap, xs)))

M_append == \E a \in Refs(heap), b \in Refs(heap) :
    Do("append", <<a, b>>, List_append(heap, a, b))

M_add == \E a \in Refs(heap), b \in Refs(heap) : Do("add", <<a, b>>, List_add(heap, a, b))

M_map == \E xs \in Refs(heap), f \in Mappers : Do("map", <<xs, f>>, List_map(heap, xs, f))

M_filter == \E xs \in Refs(heap), p \in Predicates :
    Do("filter", <<xs, p>>, List_filter(heap, xs, p))

M_choose == \E xs \in Refs(heap), f \in Choosers :
    Do("choose", <<xs, f>>, List_choose(heap, xs, f))

M_collect == \E xs \in Refs(heap), f \in Mappings(heap) :
    Do("collect", <<xs, f>>, List_collect(heap, xs, f))

M_skip == \E xs \in Refs(heap), n \in Counts : Do("skip", <<xs, n>>, List_skip(heap, xs, n))

M_take == \E xs \in Refs(heap), n \in Counts : Do("take", <<xs, n>>, List_take(heap, xs, n))

M_skip_last == \E xs \in Refs(heap), n \in Counts :
    Do("skip_last", <<xs, n>>, List_skip_last(heap, xs, n))

M_take_last == \E xs \in Refs(heap), n \in Counts :
    Do("take_last", <<xs, n>>, List_take_last(heap, xs, n))

M_slice == \E xs \in Refs(heap), a \in SliceArgs :
    Do("slice", <<xs, a[1], a[2], a[3]>>, slice(heap, xs, a[1], a[2], a[3]))

F_singleton == \E x \in Elem : Do("singleton", <<x>>, singleton(heap, x))

F_of_option == \E o \in Options : Do("of_option", <<o>>, of_option(heap, o))

F_of_seq == \E xs \in Iterables : Do("of_seq", <<xs>>, of_seq(heap, xs))

F_concat == \E ss \in Sources(heap) : Do("concat", <<ss>>, concat(heap, ss))

F_append == \E a \in Refs(heap), b \in Refs(heap) :
    Do("append()", <<a, b>>, CallOn(append(heap, <<a>>), b))

\* choose(f)(xs), and choose(sef, f)(xs) with a first argument to spare
F_choose == \E xs \in Refs(heap), f \in Choosers :
    \E args \in {<<f>>, <<Nil, f>>} :
        Do("choose()", <<xs, args>>, CallOn(choose(heap, args), xs))

F_collect == \E xs \in Refs(heap), f \in Mappings(heap) :
    Do("collect()", <<xs, f>>, CallOn(collect(heap, <<f>>), xs))

F_filter == \E xs \in Refs(heap), p \in Predicates :
    Do("filter()", <<xs, p>>, CallOn(filter(heap, <<p>>), xs))

F_head == \E xs \in Refs(heap) : Do("head()", <<xs>>, head(heap, <<xs>>))

F_is_empty == \E xs \in Refs(heap) : Do("is_empty()", <<xs>>, is_empty(heap, <<xs>>))

F_map == \E xs \in Refs(heap), f \in Mappers :
    Do("map()", <<xs, f>>, CallOn(map(heap, <<f>>), xs))

F_skip == \E xs \in Refs(heap), n \in Counts :
    Do("skip()", <<xs, n>>, CallOn(skip(heap, <<n>>), xs))

F_skip_last == \E xs \in Refs(heap), n \in Counts :
    Do("skip_last()", <<xs, n>>, CallOn(skip_last(heap, <<n>>), xs))

F_tail == \E xs \in Refs(heap) : Do("tail()", <<xs>>, tail(heap, <<xs>>))

F_take == \E xs \in Refs(heap), n \in Counts :
    Do("take()", <<xs, n>>, CallOn(take(heap, <<n>>), xs))

F_take_last == \E xs \in Refs(heap), n \in Counts :
    Do("take_last()", <<xs, n>>, CallOn(take_last(heap, <<n>>), xs))

\* try_head(xs), and the function it returns called on a list
F_try_head == \E xs \in Refs(heap), applied \in BOOLEAN :
    Do("try_head()", <<xs, applied>>, IF applied THEN CallOn(try_head(heap, <<Nil>>), xs)
                     ELSE try_head(heap, <<xs>>))

\* The List class and the builders.
Next ==
    \/ M_cons \/ M_head \/ M_tail \/ M_try_head \/ M_is_empty \/ M_len
    \/ M_eq \/ M_iter
    \/ M_append \/ M_add \/ M_map \/ M_filter \/ M_choose \/ M_collect
    \/ M_skip \/ M_take \/ M_skip_last \/ M_take_last
    \/ F_singleton \/ F_of_option \/ F_of_seq \/ F_concat

Spec == Init /\ [][Next]_vars

\* Prepending, appending and the sub-lists counted from the front.
NextFront == M_cons \/ M_append \/ M_skip \/ M_take

SpecFront == Init /\ [][NextFront]_vars

\* Prepending and the sub-lists counted from the end.
NextBack == M_cons \/ M_skip_last \/ M_take_last

SpecBack == Init /\ [][NextBack]_vars

\* The free functions and slice, on lists built by cons and of_seq.
NextFacade ==
    \/ M_cons \/ F_of_seq \/ M_slice
    \/ F_append \/ F_choose \/ F_collect \/ F_filter \/ F_head \/ F_is_empty
    \/ F_map \/ F_skip \/ F_skip_last \/ F_tail \/ F_take \/ F_take_last
    \/ F_try_head

SpecFacade == Init /\ [][NextFacade]_vars


\* ---------------------------------------------------------------- properties
\* Counts tried against every list of the heap: up to one past the longest.
AllCounts == 0..(MaxCells + 1)

\* The list reached from self after k tail steps.
RECURSIVE nth_tail(_, _, _)
nth_tail(h, self, k) == IF k = 0 THEN self ELSE nth_tail(h, h[self].tail, k - 1)

SameOutcome(a, b) == a.kind = b.kind /\ a.h = b.h /\ a.v = b.v

\* C1: for every list xs and 0 <= n <= length(xs), take(n) and skip(n)
\* succeed and take(n, xs).append(skip(n, xs)) equals xs: same elements in
\* the same order, same length.
C1_TakeSkipComplement ==
    \A xs \in Refs(heap) : \A n \in 0..len(heap, xs) :
        LET t == List_take(heap, xs, n)
            s == List_skip(t.h, xs, n)
            a == List_append(s.h, t.v, s.v)
        IN  /\ t.kind = "list" /\ s.kind = "list" /\ a.kind = "list"
            /\ eq(a.h, a.v, xs)
            /\ iter(a.h, a.v) = iter(heap, xs)
            /\ len(a.h, a.v) = len(heap, xs)

\* take(n) has split a list strictly inside: 0 < n < length(xs)
C1_Witness ==
    /\ last.op = "take" /\ last.kind = "list"
    /\ last.args[2] > 0 /\ last.args[2] < len(heap, last.args[1])
    /\ iter(heap, last.v) = SubSeq(iter(heap, last.args[1]), 1, last.args[2])

\* C2: for every list xs and 0 <= n <= length(xs), skip_last(n) and
\* take_last(n) succeed, skip_last holds exactly the first length(xs)-n
\* elements, take_last exactly the last n, and their append equals xs.
C2_LastComplement ==
    \A xs \in Refs(heap) : \A n \in 0..len(heap, xs) :
        LET all == iter(heap, xs)
            s == List_skip_last(heap, xs, n)
            t == List_take_last(s.h, xs, n)
            a == List_append(t.h, s.v, t.v)
        IN  /\ s.kind = "list" /\ t.kind = "list" /\ a.kind = "list"
            /\ iter(s.h, s.v) = SubSeq(all, 1, Len(all) - n)
            /\ iter(t.h, t.v) = SubSeq(all, Len(all) - n + 1, Len(all))
            /\ eq(a.h, a.v, xs)
            /\ iter(a.h, a.v) = all

\* take_last(n) has kept a proper, non-empty end of a list
C2_Witness ==
    /\ last.op = "take_last" /\ last.kind = "list"
    /\ last.args[2] > 0 /\ last.args[2] < len(heap, last.args[1])
    /\ len(heap, last.v) = last.args[2]

\* C3: for every list xs and n >= 0, skip(n, xs) and take(n, xs) each fail
\* with ValueError exactly when n > length(xs); otherwise they return a
\* list; a failing call returns no list and has built no cell.
C3_TakeSkipFailure ==
    \A xs \in Refs(heap) : \A n \in AllCounts :
        LET t == List_take(heap, xs, n)
            s == List_skip(heap, xs, n)
        IN  /\ (t.kind = "ValueError") <=> (n > len(heap, xs))
            /\ (s.kind = "ValueError") <=> (n > len(heap, xs))
            /\ n <= len(heap, xs) => t.kind = "list" /\ s.kind = "list"
            /\ n > len(heap, xs) => t.h = heap /\ s.h = heap

\* take(n) has failed on a non-empty list shorter than n
C3_Witness ==
    /\ last.op = "take" /\ last.kind = "ValueError"
    /\ last.args[1] # Nil
    /\ last.args[2] > len(heap, last.args[1])

\* C4, as claimed: skip_last(n, xs) and take_last(n, xs) fail with
\* ValueError for every list xs, empty or not, and every n > length(xs).
C4_AsClaimed ==
    \A xs \in Refs(heap) : \A n \in AllCounts :
        n > len(heap, xs) =>
            /\ List_skip_last(heap, xs, n).kind = "ValueError"
            /\ List_take_last(heap, xs, n).kind = "ValueError"

\* C4, amended: skip_last(n, xs) and take_last(n, xs) fail with ValueError
\* exactly when xs is empty and n > 0; on a non-empty list they never
\* fail, and for n > length(xs) skip_last returns the empty list and
\* take_last returns all the elements of xs.
C4_LastFailure ==
    \A xs \in Refs(heap) : \A n \in AllCounts :
        LET s == List_skip_last(heap, xs, n)
            t == List_take_last(heap, xs, n)
        IN  /\ (s.kind = "ValueError") <=> (xs = Nil /\ n > 0)
            /\ (t.kind = "ValueError") <=> (xs = Nil /\ n > 0)
            /\ s.kind \in {"list", "ValueError"}
            /\ t.kind \in {"list", "ValueError"}
            /\ (xs # Nil /\ n > len(heap, xs)) =>
                   /\ s.v = Nil
                   /\ iter(t.h, t.v) = iter(heap, xs)

\* skip_last(n) has been asked, of a non-empty list, for more than it holds
C4_Witness ==
    /\ last.op = "skip_last"
    /\ last.args[1] # Nil
    /\ last.args[2] > len(heap, last.args[1])
    /\ last.kind = "list" /\ last.v = Nil

\* C5: with stop and step omitted and 0 <= start <= length(xs) (or start
\* omitted too), slice succeeds and equals skip(start, xs); slice(xs)
\* equals xs.
C5_SliceOpenEnd ==
    (/\ last.op = "slice"
     /\ last.args[3] = NoneArg /\ last.args[4] = NoneArg
     /\ last.args[2].int >= 0
     /\ last.args[2].int <= len(heap, last.args[1]))
    => /\ last.kind = "list"
       /\ iter(heap, last.v) =
              SubSeq(iter(heap, last.args[1]), last.args[2].int + 1,
                     len(heap, last.args[1]))

\* C6: for 0 <= start <= stop <= length(xs) and step > 1, the elements of
\* slice(xs, start, stop, step) are the elements of xs at the positions
\* start, start+step, start+2*step, ... below stop, in that order.
C6_SliceStep ==
    (/\ last.op = "slice"
     /\ ~last.args[2].none /\ ~last.args[3].none /\ ~last.args[4].none
     /\ 0 <= last.args[2].int
     /\ last.args[2].int <= last.args[3].int
     /\ last.args[3].int <= len(heap, last.args[1])
     /\ last.args[4].int > 1)
    => LET all == iter(heap, last.args[1])
           picked(i) == /\ i - 1 >= last.args[2].int
                        /\ i - 1 < last.args[3].int
                        /\ (i - 1 - last.args[2].int) % last.args[4].int = 0
           idx == {i \in 1..Len(all) : picked(i)}
           got == IF last.kind = "list" THEN iter(heap, last.v) ELSE last.v
       IN  /\ last.kind \in {"list", "seq"}
           /\ Len(got) = Cardinality(idx)
           /\ \A k \in 1..Len(got) :
                  \E i \in idx :
                      /\ Cardinality({j \in idx : j < i}) = k - 1
                      /\ got[k] = all[i]

\* C7: each curried free function, called with the operation's own
\* argument and then on xs, gives the outcome of the method; head, tail,
\* is_empty and try_head called on xs give the outcome of the method.
C7_FreeMirrorsMethod ==
    \A xs \in Refs(heap) :
        /\ \A f \in Mappers :
               SameOutcome(CallOn(map(heap, <<f>>), xs), List_map(heap, xs, f))
        /\ \A p \in Predicates :
               SameOutcome(CallOn(filter(heap, <<p>>), xs),
                           List_filter(heap, xs, p))
        /\ \A f \in Mappings(heap) :
               SameOutcome(CallOn(collect(heap, <<f>>), xs),
                           List_collect(heap, xs, f))
        /\ \A n \in AllCounts :
               /\ SameOutcome(CallOn(skip(heap, <<n>>), xs),
                              List_skip(heap, xs, n))
               /\ SameOutcome(CallOn(take(heap, <<n>>), xs),
                              List_take(heap, xs, n))
               /\ SameOutcome(CallOn(skip_last(heap, <<n>>), xs),
                              List_skip_last(heap, xs, n))
               /\ SameOutcome(CallOn(take_last(heap, <<n>>), xs),
                              List_take_last(heap, xs, n))
        /\ SameOutcome(head(heap, <<xs>>), List_head(heap, xs))
        /\ SameOutcome(tail(heap, <<xs>>), List_tail(heap, xs))
        /\ SameOutcome(is_empty(heap, <<xs>>), List_is_empty(heap, xs))
        /\ \A f \in Choosers :
               SameOutcome(CallOn(choose(heap, <<f>>), xs),
                           List_choose(heap, xs, f))
        /\ SameOutcome(try_head(heap, <<xs>>), List_try_head(heap, xs))

\* C8: a.append(b) never fails and is a's elements followed by b's; its
\* length is the sum of the lengths; appending Nil on either side gives
\* the list back.
C8_Append ==
    \A a \in Refs(heap), b \in Refs(heap) :
        LET r == List_append(heap, a, b)
            rn == List_append(heap, a, Nil)
            nr == List_append(heap, Nil, a)
        IN  /\ r.kind = "list"
            /\ iter(r.h, r.v) = iter(heap, a) \o iter(heap, b)
            /\ len(r.h, r.v) = len(heap, a) + len(heap, b)
            /\ rn.kind = "list" /\ eq(rn.h, rn.v, a)
            /\ nr.kind = "list" /\ eq(nr.h, nr.v, a)

\* two non-empty lists have been appended
C8_Witness ==
    /\ last.op = "append" /\ last.kind = "list"
    /\ last.args[1] # Nil /\ last.args[2] # Nil
    /\ len(heap, last.v) = len(heap, last.args[1]) + len(heap, last.args[2])

\* C9: every cell's cached length is 1 + the length of its tail, Nil's is
\* 0, and the length of any list is the number of elements it iterates.
C9_CachedLength ==
    /\ len(heap, Nil) = 0
    /\ \A c \in 1..Len(heap) : heap[c].len = 1 + len(heap, heap[c].tail)
    /\ \A xs \in Refs(heap) : len(heap, xs) = Len(iter(heap, xs))

\* a transformation has built a list of two cells or more
C9_Witness ==
    /\ last.op \in {"collect", "concat", "map", "choose", "filter"}
    /\ last.kind = "list"
    /\ len(heap, last.v) >= 2

\* What one call may do to the heap: add cells, and nothing else.
C10_Step ==
    /\ Len(heap') >= Len(heap)
    /\ \A c \in 1..Len(heap) : heap'[c] = heap[c]
    /\ \A xs \in Refs(heap) : iter(heap', xs) = iter(heap, xs)
    /\ (last'.op = "append" /\ last'.kind = "list") =>
           nth_tail(heap', last'.v, len(heap, last'.args[1])) = last'.args[2]
    /\ (last'.op = "tail" /\ last'.kind = "list") =>
           /\ heap' = heap
           /\ last'.v = nth_tail(heap, last'.args[1], 1)
    /\ (last'.op = "skip" /\ last'.kind = "list") =>
           /\ heap' = heap
           /\ last'.v = nth_tail(heap, last'.args[1], last'.args[2])

\* C10: no call changes a cell built before it, so every list iterates to
\* the same elements after the call as before; in a.append(b) the list
\* reached after length(a) tail steps is b itself; tail(xs) and
\* skip(n, xs) return sub-lists of xs that exist already.
C10_Immutable == [][C10_Step]_vars

\* skip(n), n > 0, has returned a non-empty sub-list of its operand
C10_Witness ==
    /\ last.op = "skip" /\ last.kind = "list"
    /\ last.args[2] > 0
    /\ last.v # Nil

====
